---- MODULE Spec2Model ----
(***************************************************************************)
(* Timesheet reconciliation (src/timesheet_reconciliation.py) and its      *)
(* Streamlit front end (src/app.py) as a state machine.                    *)
(*                                                                         *)
(* A DataFrame is [cols |-> set of column names, rows |-> sequence of      *)
(* records]; a row's index label is its position.  A cell of a column a    *)
(* table lacks holds the column's null.  Cell values:                      *)
(*   text      a sequence of characters, or NaN (the missing value)        *)
(*   date      [k, v]: k = "ts" a Timestamp of v seconds, "str" a string   *)
(*             that parses to v seconds, "nat" NaT, "bad" unparseable text *)
(*   number    [k, v]: k = "num" the number v, "nan" NaN, "str" text that  *)
(*             is not a number                                             *)
(***************************************************************************)
EXTENDS Integers, Sequences, FiniteSets, TLC

VARIABLES
    hsbc_file,        \* upload 1: [uploaded, readable, df]
    mapping_file,     \* upload 2: [uploaded, readable, active, inactive]
    cg_file,          \* upload 3: [uploaded, readable, df]
    pc,               \* position of the 'Generate Report' handler
    hsbc_df,          \* run(): the three tables as read
    mapping_df,
    cg_df,
    mapping_combined, \* process_timesheet: locals
    merged_data,
    final_df,         \* process_timesheet's result (processed_data)
    cg_filtered,      \* per result row, the index labels of cg_filtered
    flagged_df,       \* process_flagged_timesheets' result
    excel_data,       \* run()'s return value
    raised,           \* the exception that left run(), or "none"
    report_data,      \* st.session_state.report_data
    message           \* what the page shows: st.success / st.error / st.warning

vars == <<hsbc_file, mapping_file, cg_file, pc, hsbc_df, mapping_df, cg_df,
          mapping_combined, merged_data, final_df, cg_filtered, flagged_df,
          excel_data, raised, report_data, message>>

-----------------------------------------------------------------------------
(* Bounds of the model.                                                    *)
MaxPrimary == 2
MaxMapping == 2
MaxSecondary == 2

-----------------------------------------------------------------------------
(* Cell values.                                                            *)

NaN == <<"NaN">>

Ts(v) == [k |-> "ts", v |-> v]
DateStr(v) == [k |-> "str", v |-> v]
NaT == [k |-> "nat", v |-> 0]
BadDate == [k |-> "bad", v |-> 0]

Num(v) == [k |-> "num", v |-> v]
NaNNum == [k |-> "nan", v |-> 0]
BadNum == [k |-> "str", v |-> 0]

\* pandas: a missing key compares equal to nothing the primary table holds
NaNId == 0

\* str.lower() on one character
LowerChar(c) ==
    CASE c = "J" -> "j"
      [] c = "X" -> "x"
      [] c = "B" -> "b"
      [] OTHER -> c

\* str.lower()
Lower(s) == [i \in DOMAIN s |-> LowerChar(s[i])]

RECURSIVE LStrip(_)
LStrip(s) == IF s # <<>> /\ Head(s) = " " THEN LStrip(Tail(s)) ELSE s

RECURSIVE RStrip(_)
RStrip(s) ==
    IF s # <<>> /\ s[Len(s)] = " " THEN RStrip(SubSeq(s, 1, Len(s) - 1)) ELSE s

\* str.strip()
Strip(s) == RStrip(LStrip(s))

\* Series.str.lower().str.strip(): a missing value stays missing
NormalizeEmail(e) == IF e = NaN THEN NaN ELSE Strip(Lower(e))

\* pd.to_datetime on a value that parses (the caller raises on "bad")
to_datetime(x) == IF x.k = "str" THEN Ts(x.v) ELSE x

\* comparisons of Timestamps: False whenever a side is NaT / None
DateLe(a, b) == a.k = "ts" /\ b.k = "ts" /\ a.v <= b.v
DateGe(a, b) == a.k = "ts" /\ b.k = "ts" /\ a.v >= b.v

DaySecs == 86400
WindowDays == 6

\* (timeperiod + timedelta(days=6)).replace(hour=23, minute=59, second=59)
EndDateMut(t) ==
    IF t.k # "ts" THEN t ELSE Ts(t.v + WindowDays * DaySecs)
EndDate(t) ==
    IF t.k # "ts" THEN t
    ELSE Ts(((t.v + WindowDays * DaySecs) \div DaySecs) * DaySecs
            + 23 * 3600 + 59 * 60 + 59)

-----------------------------------------------------------------------------
(* DataFrame helpers.                                                      *)

DataFrame(cols, rows) == [cols |-> cols, rows |-> rows]

HsbcCols == {"RESOURCEID", "RESOURCE_NAME", "PROJECT_PRODUCTIVE_FLAG",
             "TSSTATUS", "TIMEPERIOD", "UNITS_CONSUMED"}
MappingCols == {"PS ID", "CG Email Id", "P&L Owner new"}
CgCols == {"User Email", "Entry Date", "Timesheet Period",
           "Actual Billable Hours (Selected Dates)"}

EmptyFrame == DataFrame({}, <<>>)

\* the rows of s, each with its index label
Indexed(s) == [i \in 1..Len(s) |-> [idx |-> i, row |-> s[i]]]

\* DataFrame.drop_duplicates: the first row of every key stays, in order;
\* keys[i] is the subset of columns of s[i] the rows are compared on
RECURSIVE DropDuplicates(_, _, _)
DropDuplicates(s, keys, seen) ==
    IF s = <<>> THEN <<>>
    ELSE IF Head(keys) \in seen THEN DropDuplicates(Tail(s), Tail(keys), seen)
    ELSE <<Head(s)>>
         \o DropDuplicates(Tail(s), Tail(keys), seen \cup {Head(keys)})

\* pd.concat([active, inactive], ignore_index=True): the union of the columns,
\* the active rows first
ConcatMut(active, inactive) ==
    DataFrame(active.cols \cup inactive.cols, inactive.rows \o active.rows)
Concat(active, inactive) ==
    DataFrame(active.cols \cup inactive.cols, active.rows \o inactive.rows)

PsIdOf(r) == r.PS_ID

\* mapping_combined.drop_duplicates(subset=['PS ID'])
DropDuplicatePsId(df) ==
    DataFrame(df.cols,
              DropDuplicates(df.rows,
                             [i \in 1..Len(df.rows) |-> PsIdOf(df.rows[i])], {}))

\* the mapping steps of both process functions (lines 59-66, 160-166)
CombineMapping(mapping) ==
    DropDuplicatePsId(Concat(mapping.active, mapping.inactive))

-----------------------------------------------------------------------------
(* Record filter.                                                          *)

ReconStatuses == {"Approved", "Posted"}
FlaggedStatusesMut == {"Open", "Returned", "Submitted", "Approved"}
FlaggedStatuses == {"Open", "Returned", "Submitted"}

\* UNITS_CONSUMED > 0: NaN > 0 is False
Gt0(h) == h.k = "num" /\ h.v > 0

\* the row mask of the boolean filter
InScopeMut(r, statuses) ==
    /\ r.TSSTATUS \in statuses
    /\ Gt0(r.UNITS_CONSUMED)
InScope(r, statuses) ==
    /\ r.PROJECT_PRODUCTIVE_FLAG = "Yes"
    /\ r.TSSTATUS \in statuses
    /\ Gt0(r.UNITS_CONSUMED)

\* what evaluating the mask raises: a missing column, or text compared with 0
FilterRaises(df) ==
    IF ~({"PROJECT_PRODUCTIVE_FLAG", "TSSTATUS", "UNITS_CONSUMED"} \subseteq df.cols)
    THEN "KeyError"
    ELSE IF \E i \in 1..Len(df.rows) : df.rows[i].UNITS_CONSUMED.k = "str"
    THEN "TypeError"
    ELSE "none"

\* hsbc_df[mask].copy(): the rows keep their index labels
FilterHsbc(df, statuses) ==
    LET keep(x) == InScope(x.row, statuses)
    IN  SelectSeq(Indexed(df.rows), keep)

-----------------------------------------------------------------------------
(* Left merge with the mapping.                                            *)

MergeRaises(hsbc, combined) ==
    IF "PS ID" \notin combined.cols THEN "KeyError"
    ELSE IF ~(MappingCols \subseteq combined.cols) THEN "KeyError"
    ELSE IF "RESOURCEID" \notin hsbc.cols THEN "KeyError"
    ELSE "none"

MergedRow(l, psid, email, owner) ==
    [idx |-> l.idx, row |-> l.row,
     PS_ID |-> psid, CG_Email_Id |-> email, PL_Owner_new |-> owner]

\* the merged rows of one left row: one per mapping row of its key, or one
\* with nulls
JoinRow(l, right) ==
    LET hit(r) == r.PS_ID # NaNId /\ r.PS_ID = l.row.RESOURCEID
        m == SelectSeq(right, hit)
    IN  IF m = <<>> THEN <<MergedRow(l, NaNId, NaN, NaN)>>
        ELSE [j \in 1..Len(m) |->
                MergedRow(l, m[j].PS_ID, m[j].CG_Email_Id, m[j].PL_Owner_new)]

\* pd.merge(left, right, left_on='RESOURCEID', right_on='PS ID', how='left')
RECURSIVE MergeLeft(_, _)
MergeLeft(left, right) ==
    IF left = <<>> THEN <<>>
    ELSE JoinRow(Head(left), right) \o MergeLeft(Tail(left), right)

\* the columns of a merged row (its provenance idx is no column)
MergedCells(m) == <<m.row, m.PS_ID, m.CG_Email_Id, m.PL_Owner_new>>

\* lines 78-81: drop duplicate merged rows when the merge changed the length
RecoverInflationMut(merged, filtered) ==
    DropDuplicates(merged, [i \in 1..Len(merged) |-> MergedCells(merged[i])], {})
RecoverInflation(merged, filtered) ==
    IF Len(merged) # Len(filtered)
    THEN DropDuplicates(merged,
                        [i \in 1..Len(merged) |-> MergedCells(merged[i])], {})
    ELSE merged

-----------------------------------------------------------------------------
(* Step 4: the secondary table is prepared in place.                       *)

\* line 86: cg_df['Entry Date'] = pd.to_datetime(cg_df['Entry Date'])
EntryDateRaises(df) ==
    IF "Entry Date" \notin df.cols THEN "KeyError"
    ELSE IF \E i \in 1..Len(df.rows) : df.rows[i].Entry_Date.k = "bad"
    THEN "ValueError"
    ELSE "none"

ConvertEntryDate(df) ==
    DataFrame(df.cols,
        [i \in 1..Len(df.rows) |->
            [df.rows[i] EXCEPT !.Entry_Date = to_datetime(@)]])

\* line 87: cg_df['User Email'] = cg_df['User Email'].str.lower().str.strip()
\* (.str needs a column of text: a column whose every cell is blank is read
\* as a column of floats, and .str raises on it)
UserEmailRaises(df) ==
    IF "User Email" \notin df.cols THEN "KeyError"
    ELSE IF df.rows # <<>> /\ \A i \in 1..Len(df.rows) : df.rows[i].User_Email = NaN
    THEN "AttributeError"
    ELSE "none"

NormalizeUserEmail(df) ==
    DataFrame(df.cols,
        [i \in 1..Len(df.rows) |->
            [df.rows[i] EXCEPT !.User_Email = NormalizeEmail(@)]])

\* lines 90-97: a label is the parts ' - ' splits it into (none: a blank
\* cell, which has no split); anything but two parseable parts gives
\* (None, None)
parse_timesheet_period(period) ==
    IF Len(period) = 2 /\ period[1].k # "bad" /\ period[2].k # "bad"
    THEN <<to_datetime(period[1]), to_datetime(period[2])>>
    ELSE <<NaT, NaT>>

\* line 99: zip(*...) of no rows has nothing to unpack into the two columns
TimesheetPeriodRaises(df) ==
    IF "Timesheet Period" \notin df.cols THEN "KeyError"
    ELSE IF df.rows = <<>> THEN "ValueError"
    ELSE "none"

AddTimesheetColumns(df) ==
    DataFrame(df.cols \cup {"Timesheet Start", "Timesheet End"},
        [i \in 1..Len(df.rows) |->
            [df.rows[i] EXCEPT
                !.Timesheet_Start = parse_timesheet_period(df.rows[i].Timesheet_Period)[1],
                !.Timesheet_End = parse_timesheet_period(df.rows[i].Timesheet_Period)[2]]])

\* lines 84-99 as a whole: the exception, and cg_df as the step left it
PrepareCg(df) ==
    IF EntryDateRaises(df) # "none"
    THEN [raised |-> EntryDateRaises(df), df |-> df]
    ELSE LET d1 == ConvertEntryDate(df) IN
    IF UserEmailRaises(d1) # "none"
    THEN [raised |-> UserEmailRaises(d1), df |-> d1]
    ELSE LET d2 == NormalizeUserEmail(d1) IN
    IF TimesheetPeriodRaises(d2) # "none"
    THEN [raised |-> TimesheetPeriodRaises(d2), df |-> d2]
    ELSE [raised |-> "none", df |-> AddTimesheetColumns(d2)]

-----------------------------------------------------------------------------
(* The loop over the merged rows (lines 105-139).                          *)

\* line 112
CgEmail(m) == IF m.CG_Email_Id # NaN THEN Strip(Lower(m.CG_Email_Id)) ELSE NaN

\* cg_df['User Email'] == cg_email: False for a missing cell and for None
EmailEq(cell, cg_email) == cell # NaN /\ cg_email # NaN /\ cell = cg_email

\* lines 119 and 121
PeriodOverlaps(e, timeperiod, end_date) ==
    DateLe(e.Timesheet_Start, end_date) /\ DateGe(e.Timesheet_End, timeperiod)
EntryDateInWindow(e, timeperiod, end_date) ==
    DateGe(e.Entry_Date, timeperiod) /\ DateLe(e.Entry_Date, end_date)

\* lines 115-123: the row mask of cg_filtered
CgMaskMut(e, cg_email, timeperiod, end_date) ==
    /\ EmailEq(e.User_Email, cg_email)
    /\ PeriodOverlaps(e, timeperiod, end_date)
    /\ EntryDateInWindow(e, timeperiod, end_date)
CgMask(e, cg_email, timeperiod, end_date) ==
    /\ EmailEq(e.User_Email, cg_email)
    /\ \/ PeriodOverlaps(e, timeperiod, end_date)
       \/ EntryDateInWindow(e, timeperiod, end_date)

\* the index labels of cg_filtered for merged row m
CgFiltered(m, cg) ==
    LET timeperiod == to_datetime(m.row.TIMEPERIOD)
    IN  {i \in 1..Len(cg.rows) :
            CgMask(cg.rows[i], CgEmail(m), timeperiod, EndDate(timeperiod))}

\* Series.sum(): NaN is skipped, nothing sums to 0
RECURSIVE SumHours(_, _)
SumHours(rows, labels) ==
    IF labels = {} THEN 0
    ELSE LET i == CHOOSE x \in labels : TRUE
         IN  (IF rows[i].Hours.k = "num" THEN rows[i].Hours.v ELSE 0)
             + SumHours(rows, labels \ {i})

\* what one iteration raises
RowRaises(m, hsbc, cg) ==
    IF "TIMEPERIOD" \notin hsbc.cols THEN "KeyError"
    ELSE IF m.row.TIMEPERIOD.k = "bad" THEN "ValueError"
    ELSE IF "Actual Billable Hours (Selected Dates)" \notin cg.cols THEN "KeyError"
    ELSE IF \E i \in CgFiltered(m, cg) : cg.rows[i].Hours.k = "str" THEN "TypeError"
    ELSE IF "RESOURCE_NAME" \notin hsbc.cols THEN "KeyError"
    ELSE "none"

\* the first exception of the loop
LoopRaises(merged, hsbc, cg) ==
    IF \A j \in 1..Len(merged) : RowRaises(merged[j], hsbc, cg) = "none"
    THEN "none"
    ELSE LET j == CHOOSE x \in 1..Len(merged) :
                    /\ RowRaises(merged[x], hsbc, cg) # "none"
                    /\ \A y \in 1..(x - 1) : RowRaises(merged[y], hsbc, cg) = "none"
         IN  RowRaises(merged[j], hsbc, cg)

\* lines 129-138
ResultRow(m, cg) ==
    LET cg_hours == SumHours(cg.rows, CgFiltered(m, cg))
    IN  [idx |-> m.idx,
         Name |-> m.row.RESOURCE_NAME,
         HSBC_Staff_ID |-> m.row.RESOURCEID,
         CG_Email |-> m.CG_Email_Id,
         PL_Owner |-> m.PL_Owner_new,
         Timesheet_Period |-> m.row.TIMEPERIOD,
         HSBC_Hrs |-> m.row.UNITS_CONSUMED.v,
         CG_Hrs |-> cg_hours,
         Discrepancy |-> m.row.UNITS_CONSUMED.v - cg_hours]

NoFrame == <<>>

\* process_timesheet(hsbc_df, mapping_df, cg_df): what it raises, what it
\* returns, its locals, and cg_df as it leaves it
process_timesheet(hsbc, mapping, cg) ==
    LET none == [raised |-> "none", cg_df |-> cg, mapping_combined |-> EmptyFrame,
                 merged_data |-> <<>>, final_df |-> NoFrame, cg_filtered |-> <<>>]
    IN
    IF FilterRaises(hsbc) # "none" THEN [none EXCEPT !.raised = FilterRaises(hsbc)]
    ELSE
    LET filtered == FilterHsbc(hsbc, ReconStatuses)
        combined == CombineMapping(mapping)
    IN
    IF MergeRaises(hsbc, combined) # "none"
    THEN [none EXCEPT !.raised = MergeRaises(hsbc, combined),
                      !.mapping_combined = combined]
    ELSE
    LET merged == RecoverInflation(MergeLeft(filtered, combined.rows), filtered)
        prep == PrepareCg(cg)
        sofar == [none EXCEPT !.mapping_combined = combined,
                              !.merged_data = merged,
                              !.cg_df = prep.df]
    IN
    IF prep.raised # "none" THEN [sofar EXCEPT !.raised = prep.raised]
    ELSE IF LoopRaises(merged, hsbc, prep.df) # "none"
    THEN [sofar EXCEPT !.raised = LoopRaises(merged, hsbc, prep.df)]
    ELSE [sofar EXCEPT
            !.final_df = [j \in 1..Len(merged) |-> ResultRow(merged[j], prep.df)],
            !.cg_filtered = [j \in 1..Len(merged) |-> CgFiltered(merged[j], prep.df)]]

-----------------------------------------------------------------------------
(* Flagged entries (lines 149-192).                                        *)

FlaggedRow(m) ==
    [idx |-> m.idx,
     Name |-> m.row.RESOURCE_NAME,
     HSBC_Staff_ID |-> m.row.RESOURCEID,
     CG_Email |-> m.CG_Email_Id,
     PL_Owner |-> m.PL_Owner_new,
     Timesheet_Period |-> m.row.TIMEPERIOD,
     HSBC_Hrs |-> m.row.UNITS_CONSUMED.v,
     Status |-> m.row.TSSTATUS]

process_flagged_timesheets(hsbc, mapping) ==
    IF FilterRaises(hsbc) # "none"
    THEN [raised |-> FilterRaises(hsbc), result_df |-> NoFrame]
    ELSE
    LET flagged_entries == FilterHsbc(hsbc, FlaggedStatuses)
        combined == CombineMapping(mapping)
    IN
    IF MergeRaises(hsbc, combined) # "none"
    THEN [raised |-> MergeRaises(hsbc, combined), result_df |-> NoFrame]
    ELSE IF ~({"RESOURCE_NAME", "TIMEPERIOD"} \subseteq hsbc.cols)
    THEN [raised |-> "KeyError", result_df |-> NoFrame]
    ELSE LET merged == MergeLeft(flagged_entries, combined.rows)
         IN  [raised |-> "none",
              result_df |-> [j \in 1..Len(merged) |-> FlaggedRow(merged[j])]]

-----------------------------------------------------------------------------
(* run(), generate_report() and the page.                                  *)

NoReport == [present |-> FALSE]

\* a worksheet holds the columns of the table (idx is the row's origin, not a
\* column)
Sheet(rows) ==
    [i \in 1..Len(rows) |-> [c \in DOMAIN rows[i] \ {"idx"} |-> rows[i][c]]]

\* the workbook of generate_report: both worksheets
Workbook(processed_data, flagged_data) ==
    [present |-> TRUE,
     recon |-> Sheet(processed_data),
     flagged |-> Sheet(flagged_data)]

NoSheets == [active |-> EmptyFrame, inactive |-> EmptyFrame]

\* app.py 60-62: the button, with or without the three uploads
ClickGenerate ==
    /\ pc = "idle"
    /\ IF hsbc_file.uploaded /\ mapping_file.uploaded /\ cg_file.uploaded
       THEN /\ pc' = "run"
            /\ message' = "Processing files..."
       ELSE /\ pc' = "idle"
            /\ message' = "Please upload all three required files."
    /\ UNCHANGED <<hsbc_file, mapping_file, cg_file, hsbc_df, mapping_df, cg_df,
                   mapping_combined, merged_data, final_df, cg_filtered,
                   flagged_df, excel_data, raised, report_data>>

\* run() 254-258: read_excel_file on the three files, in order
ReadFiles ==
    /\ pc = "run"
    /\ hsbc_df' = IF hsbc_file.readable THEN hsbc_file.df ELSE hsbc_df
    /\ mapping_df' = IF hsbc_file.readable /\ mapping_file.readable
                     THEN [active |-> mapping_file.active,
                           inactive |-> mapping_file.inactive]
                     ELSE mapping_df
    /\ cg_df' = IF hsbc_file.readable /\ mapping_file.readable /\ cg_file.readable
                THEN cg_file.df ELSE cg_df
    /\ IF hsbc_file.readable /\ mapping_file.readable /\ cg_file.readable
       THEN pc' = "process" /\ raised' = "none"
       ELSE pc' = "raised" /\ raised' = "ReadError"
    /\ UNCHANGED <<hsbc_file, mapping_file, cg_file, mapping_combined,
                   merged_data, final_df, cg_filtered, flagged_df, excel_data,
                   report_data, message>>

\* run() 262
ProcessTimesheet ==
    /\ pc = "process"
    /\ LET r == process_timesheet(hsbc_df, mapping_df, cg_df)
       IN  /\ cg_df' = r.cg_df
           /\ mapping_combined' = r.mapping_combined
           /\ merged_data' = r.merged_data
           /\ final_df' = r.final_df
           /\ cg_filtered' = r.cg_filtered
           /\ raised' = r.raised
           /\ pc' = IF r.raised = "none" THEN "report" ELSE "raised"
    /\ UNCHANGED <<hsbc_file, mapping_file, cg_file, hsbc_df, mapping_df,
                   flagged_df, excel_data, report_data, message>>

\* generate_report(processed_data): the first sheet, then the flagged sheet
\* from the primary and mapping files read again
generate_report(processed_data) ==
    IF ~(hsbc_file.readable /\ mapping_file.readable)
    THEN [raised |-> "ReadError", flagged |-> NoFrame, excel_data |-> NoReport]
    ELSE LET f == process_flagged_timesheets(hsbc_file.df,
                    [active |-> mapping_file.active,
                     inactive |-> mapping_file.inactive])
         IN  IF f.raised # "none"
             THEN [raised |-> f.raised, flagged |-> NoFrame, excel_data |-> NoReport]
             ELSE [raised |-> "none", flagged |-> f.result_df,
                   excel_data |-> Workbook(processed_data, f.result_df)]

\* run() 266-269
GenerateReport ==
    /\ pc = "report"
    /\ LET g == generate_report(final_df)
       IN  /\ flagged_df' = g.flagged
           /\ excel_data' = g.excel_data
           /\ raised' = g.raised
           /\ pc' = IF g.raised = "none" THEN "returned" ELSE "raised"
    /\ UNCHANGED <<hsbc_file, mapping_file, cg_file, hsbc_df, mapping_df, cg_df,
                   mapping_combined, merged_data, final_df, cg_filtered,
                   report_data, message>>

\* app.py 87-101: run() returned the workbook, or raised; the handler's
\* locals are gone afterwards
HandlerReturn ==
    /\ pc \in {"returned", "raised"}
    /\ IF pc = "returned"
       THEN /\ report_data' = excel_data
            /\ message' = "Report generated successfully!"
       ELSE /\ report_data' = report_data
            /\ message' = "Error generating report"
    /\ pc' = "idle"
    /\ hsbc_df' = EmptyFrame
    /\ mapping_df' = NoSheets
    /\ cg_df' = EmptyFrame
    /\ mapping_combined' = EmptyFrame
    /\ merged_data' = <<>>
    /\ final_df' = NoFrame
    /\ cg_filtered' = <<>>
    /\ flagged_df' = NoFrame
    /\ excel_data' = NoReport
    /\ raised' = "none"
    /\ UNCHANGED <<hsbc_file, mapping_file, cg_file>>

\* app.py 106-112: the download button is drawn iff a report is stored
DownloadOffered == report_data # NoReport

Next ==
    \/ ClickGenerate
    \/ ReadFiles
    \/ ProcessTimesheet
    \/ GenerateReport
    \/ HandlerReturn

-----------------------------------------------------------------------------
(* Inputs.                                                                 *)

PRow(id, name, flag, status, period, hours) ==
    [RESOURCEID |-> id, RESOURCE_NAME |-> name, PROJECT_PRODUCTIVE_FLAG |-> flag,
     TSSTATUS |-> status, TIMEPERIOD |-> period, UNITS_CONSUMED |-> hours]

MRow(id, email, owner) ==
    [PS_ID |-> id, CG_Email_Id |-> email, PL_Owner_new |-> owner]

CRow(email, entry, period, hours) ==
    [User_Email |-> email, Entry_Date |-> entry, Timesheet_Period |-> period,
     Hours |-> hours, Timesheet_Start |-> NaT, Timesheet_End |-> NaT]

HsbcFile(rows) ==
    [uploaded |-> TRUE, readable |-> TRUE, df |-> DataFrame(HsbcCols, rows)]
MappingFile(active, inactive) ==
    [uploaded |-> TRUE, readable |-> TRUE,
     active |-> DataFrame(MappingCols, active),
     inactive |-> DataFrame(MappingCols, inactive)]
CgFile(rows) ==
    [uploaded |-> TRUE, readable |-> TRUE, df |-> DataFrame(CgCols, rows)]

SeqsUpTo(S, n) == UNION {[1..k -> S] : k \in 0..n}

\* a reporting week starts at midnight
T0 == 20 * DaySecs
WindowEnd == T0 + WindowDays * DaySecs + DaySecs - 1

eJane == <<"j", "@", "x">>
eJaneRaw == <<"J", "@", "X", " ">>
eBob == <<"b", "@", "x">>
Owner1 == <<"P1">>
Owner2 == <<"P2">>
Owner3 == <<"P3">>

Statuses == ReconStatuses \cup FlaggedStatuses \cup {"Rejected"}

Garbage == <<BadDate>>
WeekLabel(t) == <<DateStr(t), DateStr(t + WindowDays * DaySecs)>>

BaseActive == <<MRow(100, eJaneRaw, Owner1)>>
BaseInactive == <<MRow(200, eBob, Owner2)>>
BaseCg ==
    <<CRow(eJaneRaw, Ts(T0 + DaySecs), Garbage, Num(2)),
      CRow(eBob, Ts(T0 + DaySecs), WeekLabel(T0), Num(1)),
      CRow(NaN, Ts(T0 + DaySecs), WeekLabel(T0), Num(4))>>

\* primary tables of every flag, status and hours
FilterPrimaryRows ==
    {PRow(100, "Ann", f, s, Ts(T0), Num(8)) : f \in {"Yes", "No"}, s \in Statuses}
    \cup {PRow(100, "Ann", "Yes", s, Ts(T0), h) :
            s \in {"Approved", "Submitted"}, h \in {Num(0), NaNNum}}

InitFilter ==
    /\ \E rows \in SeqsUpTo(FilterPrimaryRows, MaxPrimary) :
            hsbc_file = HsbcFile(rows)
    /\ mapping_file = MappingFile(BaseActive, BaseInactive)
    /\ cg_file = CgFile(BaseCg)

\* mapping segments with staff IDs repeated within and across segments
MappingRows ==
    {MRow(100, eJaneRaw, Owner1), MRow(100, eBob, Owner2),
     MRow(200, eBob, Owner2), MRow(100, NaN, Owner3)}

MappingPrimary ==
    <<PRow(100, "Ann", "Yes", "Approved", Ts(T0), Num(8)),
      PRow(100, "Ann", "Yes", "Submitted", Ts(T0), Num(8)),
      PRow(200, "Bob", "Yes", "Posted", Ts(T0), Num(40))>>

InitMapping ==
    /\ hsbc_file = HsbcFile(MappingPrimary)
    /\ \E a \in SeqsUpTo(MappingRows, MaxMapping),
          i \in SeqsUpTo(MappingRows, MaxMapping) :
            mapping_file = MappingFile(a, i)
    /\ cg_file = CgFile(BaseCg)

\* secondary entries around the window of T0, well formed and malformed
SecondaryRows ==
    {CRow(eJane, d, Garbage, Num(1)) :
        d \in {Ts(T0 - 1), Ts(T0), Ts(WindowEnd), Ts(WindowEnd + 2),
               DateStr(T0 + DaySecs), BadDate}}
    \cup {CRow(eJane, Ts(WindowEnd + 2), l, Num(2)) :
        l \in {WeekLabel(T0), WeekLabel(T0 + (WindowDays + 1) * DaySecs),
               <<DateStr(T0), BadDate>>}}
    \cup {CRow(eJane, Ts(T0), WeekLabel(T0), Num(4))}
    \cup {CRow(e, Ts(T0), Garbage, Num(1)) : e \in {eJaneRaw, NaN}}
    \cup {CRow(eJane, Ts(T0), Garbage, h) : h \in {NaNNum, BadNum}}

MatchPrimaries ==
    {<<PRow(100, "Ann", "Yes", "Approved", Ts(T0), Num(8))>>,
     <<PRow(100, "Ann", "Yes", "Approved", DateStr(T0), Num(8)),
       PRow(300, "Cy", "Yes", "Approved", Ts(T0), Num(40))>>,
     <<PRow(100, "Ann", "Yes", "Approved", Ts(T0), Num(8)),
       PRow(200, "Bob", "Yes", "Posted", BadDate, Num(8))>>,
     <<PRow(100, "Ann", "Yes", "Submitted", Ts(T0), BadNum)>>}

InitMatch ==
    /\ \E rows \in MatchPrimaries : hsbc_file = HsbcFile(rows)
    /\ mapping_file = MappingFile(BaseActive, BaseInactive)
    /\ \E rows \in SeqsUpTo(SecondaryRows, MaxSecondary) :
            cg_file = CgFile(rows)

InitRun ==
    /\ pc = "idle"
    /\ hsbc_df = EmptyFrame
    /\ mapping_df = NoSheets
    /\ cg_df = EmptyFrame
    /\ mapping_combined = EmptyFrame
    /\ merged_data = <<>>
    /\ final_df = NoFrame
    /\ cg_filtered = <<>>
    /\ flagged_df = NoFrame
    /\ excel_data = NoReport
    /\ raised = "none"
    /\ report_data = NoReport
    /\ message = ""

Init ==
    /\ InitFilter \/ InitMapping \/ InitMatch
    /\ InitRun

Spec == Init /\ [][Next]_vars

-----------------------------------------------------------------------------
(* The page with its upload widgets (app.py 22-32): between two runs the   *)
(* user may replace an upload, also by a file that cannot be read or whose *)
(* table lacks a column.                                                   *)

\* the record field of a column, and the null a cell of a lacking column holds
Field(c) ==
    CASE c = "PS ID" -> "PS_ID"
      [] c = "CG Email Id" -> "CG_Email_Id"
      [] c = "P&L Owner new" -> "PL_Owner_new"
      [] c = "User Email" -> "User_Email"
      [] c = "Entry Date" -> "Entry_Date"
      [] c = "Timesheet Period" -> "Timesheet_Period"
      [] c = "Actual Billable Hours (Selected Dates)" -> "Hours"
      [] OTHER -> c

Null(c) ==
    CASE c = "PS ID" -> NaNId
      [] c = "RESOURCEID" -> NaNId
      [] c \in {"CG Email Id", "P&L Owner new", "User Email"} -> NaN
      [] c \in {"Entry Date", "TIMEPERIOD"} -> NaT
      [] c = "Timesheet Period" -> <<>>
      [] c \in {"UNITS_CONSUMED", "Actual Billable Hours (Selected Dates)"} -> NaNNum
      [] OTHER -> "NaN"

Without(df, c) ==
    DataFrame(df.cols \ {c},
        [i \in 1..Len(df.rows) |-> [df.rows[i] EXCEPT ![Field(c)] = Null(c)]])

AppPrimaries ==
    {<<PRow(100, "Ann", "Yes", "Approved", Ts(T0), Num(8)),
       PRow(200, "Bob", "Yes", "Submitted", Ts(T0), Num(40))>>,
     <<PRow(200, "Bob", "Yes", "Submitted", Ts(T0), Num(40))>>}

AppCgRows == <<CRow(eJane, Ts(T0), WeekLabel(T0), Num(8))>>

HsbcUploads ==
    {HsbcFile(rows) : rows \in AppPrimaries}
    \cup {[HsbcFile(rows) EXCEPT !.df = Without(@, c)] :
            rows \in AppPrimaries, c \in HsbcCols}
    \cup {[HsbcFile(<<>>) EXCEPT !.readable = FALSE, !.df = EmptyFrame],
          [HsbcFile(<<>>) EXCEPT !.uploaded = FALSE, !.readable = FALSE,
                                 !.df = EmptyFrame]}

MappingUploads ==
    LET full == MappingFile(BaseActive, BaseInactive) IN
    {full}
    \cup {[full EXCEPT !.active = Without(@, c)] : c \in MappingCols}
    \cup {[full EXCEPT !.inactive = Without(@, c)] : c \in MappingCols}
    \cup {[full EXCEPT !.active = Without(@, c), !.inactive = Without(@, c)] :
            c \in MappingCols}
    \cup {[full EXCEPT !.readable = FALSE, !.active = EmptyFrame,
                       !.inactive = EmptyFrame]}

CgUploads ==
    {CgFile(AppCgRows)}
    \cup {[CgFile(AppCgRows) EXCEPT !.df = Without(@, c)] : c \in CgCols}
    \cup {[CgFile(<<>>) EXCEPT !.readable = FALSE, !.df = EmptyFrame]}

UploadHsbc ==
    /\ pc = "idle"
    /\ \E f \in HsbcUploads : hsbc_file' = f
    /\ UNCHANGED <<mapping_file, cg_file, pc, hsbc_df, mapping_df, cg_df,
                   mapping_combined, merged_data, final_df, cg_filtered,
                   flagged_df, excel_data, raised, report_data, message>>

UploadMapping ==
    /\ pc = "idle"
    /\ \E f \in MappingUploads : mapping_file' = f
    /\ UNCHANGED <<hsbc_file, cg_file, pc, hsbc_df, mapping_df, cg_df,
                   mapping_combined, merged_data, final_df, cg_filtered,
                   flagged_df, excel_data, raised, report_data, message>>

UploadCg ==
    /\ pc = "idle"
    /\ \E f \in CgUploads : cg_file' = f
    /\ UNCHANGED <<hsbc_file, mapping_file, pc, hsbc_df, mapping_df, cg_df,
                   mapping_combined, merged_data, final_df, cg_filtered,
                   flagged_df, excel_data, raised, report_data, message>>

InitApp ==
    /\ hsbc_file \in HsbcUploads
    /\ mapping_file \in MappingUploads
    /\ cg_file \in CgUploads
    /\ InitRun

NextApp ==
    \/ Next
    \/ UploadHsbc
    \/ UploadMapping
    \/ UploadCg

SpecApp == InitApp /\ [][NextApp]_vars

-----------------------------------------------------------------------------
(* Properties.                                                             *)

\* process_timesheet has returned and its table stands
Processed == pc \in {"report", "returned"}
\* run() has returned: both tables stand
Reported == pc = "returned"

Primary == hsbc_file.df.rows
Secondary == cg_file.df.rows

HasRow(table, i) == \E j \in 1..Len(table) : table[j].idx = i

OutOfBothPolicies(r) ==
    \/ r.PROJECT_PRODUCTIVE_FLAG = "No"
    \/ r.TSSTATUS \notin {"Approved", "Posted", "Open", "Returned", "Submitted"}

\* C1: a primary record with flag No, or with a status in neither policy set,
\* has no row in the Reconciliation table and no row in the Flagged table.
C1_OutOfPolicyInNeitherTable ==
    \A i \in 1..Len(Primary) :
        OutOfBothPolicies(Primary[i]) =>
            /\ Processed => ~HasRow(final_df, i)
            /\ Reported => ~HasRow(flagged_df, i)

\* a run whose primary table holds a flag-No record that is otherwise
\* reconcilable (and one otherwise flagged, or a foreign status) beside rows
\* that do reach a table
C1_Witness ==
    /\ Reported
    /\ \E i \in 1..Len(Primary) :
        /\ Primary[i].PROJECT_PRODUCTIVE_FLAG = "No"
        /\ Primary[i].TSSTATUS = "Approved"
        /\ Gt0(Primary[i].UNITS_CONSUMED)
    /\ Len(final_df) + Len(flagged_df) > 0

\* C2: no primary record has a row in both tables, and a productive record
\* with hours > 0 and status Submitted has a Flagged row and no
\* Reconciliation row.
C2_AtMostOneTable ==
    Reported =>
        \A i \in 1..Len(Primary) :
            /\ ~(HasRow(final_df, i) /\ HasRow(flagged_df, i))
            /\ ( /\ Primary[i].PROJECT_PRODUCTIVE_FLAG = "Yes"
                 /\ Primary[i].TSSTATUS = "Submitted"
                 /\ Gt0(Primary[i].UNITS_CONSUMED) )
               => (HasRow(flagged_df, i) /\ ~HasRow(final_df, i))

C2_Witness ==
    /\ Reported
    /\ \E i, k \in 1..Len(Primary) :
        /\ Primary[i].TSSTATUS = "Submitted" /\ HasRow(flagged_df, i)
        /\ Primary[k].TSSTATUS = "Approved" /\ HasRow(final_df, k)

\* the value of a date cell read as the code reads it, and whether it has one
IsDate(d) == d.k \in {"ts", "str"}

\* rule (a) on the entry as uploaded: its label has two parseable parts
\* [s, e] with s <= T + 6d 23:59:59 and e >= T
RuleA(e, T) ==
    /\ Len(e.Timesheet_Period) = 2
    /\ IsDate(e.Timesheet_Period[1]) /\ IsDate(e.Timesheet_Period[2])
    /\ e.Timesheet_Period[1].v <= T + 6 * 86400 + 86399
    /\ e.Timesheet_Period[2].v >= T

\* rule (b) on the entry as uploaded: T <= entry date <= T + 6d 23:59:59
RuleB(e, T) ==
    /\ IsDate(e.Entry_Date)
    /\ T <= e.Entry_Date.v
    /\ e.Entry_Date.v <= T + 6 * 86400 + 86399

SameEmail(e, email) ==
    /\ e.User_Email # NaN
    /\ email # NaN
    /\ Strip(Lower(e.User_Email)) = Strip(Lower(email))

\* the entries the claim counts for a result row
Counted(e, row) ==
    /\ SameEmail(e, row.CG_Email)
    /\ IsDate(row.Timesheet_Period)
    /\ (RuleA(e, row.Timesheet_Period.v) \/ RuleB(e, row.Timesheet_Period.v))

\* the billable hours of the first n uploaded entries counted for row
RECURSIVE BillableSum(_, _)
BillableSum(row, n) ==
    IF n = 0 THEN 0
    ELSE BillableSum(row, n - 1)
         + (IF Counted(Secondary[n], row) /\ Secondary[n].Hours.k = "num"
            THEN Secondary[n].Hours.v ELSE 0)

\* C3: in every Reconciliation row 'CG Hrs' is the sum of the billable hours
\* of the entries of the row's email (case and surrounding blanks ignored)
\* that satisfy rule (a) or rule (b), each once, and 'Discrepancy' is
\* 'HSBC Hrs' minus 'CG Hrs'.
C3_HoursAndDiscrepancy ==
    Processed =>
        \A j \in 1..Len(final_df) :
            /\ final_df[j].CG_Hrs = BillableSum(final_df[j], Len(Secondary))
            /\ final_df[j].Discrepancy = final_df[j].HSBC_Hrs - final_df[j].CG_Hrs

\* a row fed by two entries, one of them under both rules, the other with an
\* email that differs in case and blanks
C3_Witness ==
    /\ Processed
    /\ \E j \in 1..Len(final_df) :
        /\ final_df[j].CG_Hrs = 5
        /\ final_df[j].Discrepancy = 3
        /\ \E i \in 1..Len(Secondary) :
            RuleA(Secondary[i], T0) /\ RuleB(Secondary[i], T0)
        /\ \E i \in 1..Len(Secondary) : Secondary[i].User_Email = eJaneRaw

\* the pairs (result row j, uploaded entry i of the row's email) with a
\* period start and an entry date to compare
Comparable(j, i) ==
    /\ IsDate(final_df[j].Timesheet_Period)
    /\ IsDate(Secondary[i].Entry_Date)
    /\ SameEmail(Secondary[i], final_df[j].CG_Email)

\* C4 as stated: an entry dated T + 6d 23:59:59 is among the matched entries
\* of the record, an entry dated T + 7d 00:00:01 is not.
C4_WindowAsStated ==
    Processed =>
        \A j \in 1..Len(final_df) : \A i \in 1..Len(Secondary) :
            Comparable(j, i) =>
                LET T == final_df[j].Timesheet_Period.v
                    d == Secondary[i].Entry_Date.v
                IN  /\ d = T + 6 * 86400 + 86399 => i \in cg_filtered[j]
                    /\ d = T + 7 * 86400 + 1 => i \notin cg_filtered[j]

\* C4 amended: an entry dated T + 6d 23:59:59 is among the matched entries; an
\* entry dated T + 7d 00:00:01 is among them exactly when its own parsed
\* period overlaps the window (rule (a)), so it is excluded whenever rule (a)
\* does not hold.
C4_WindowAmended ==
    Processed =>
        \A j \in 1..Len(final_df) : \A i \in 1..Len(Secondary) :
            Comparable(j, i) =>
                LET T == final_df[j].Timesheet_Period.v
                    d == Secondary[i].Entry_Date.v
                IN  /\ d = T + 6 * 86400 + 86399 => i \in cg_filtered[j]
                    /\ d = T + 7 * 86400 + 1 =>
                        (i \in cg_filtered[j] <=> RuleA(Secondary[i], T))

\* one record with an entry on each side of the end of its window
C4_Witness ==
    /\ Processed
    /\ \E j \in 1..Len(final_df) : \E i, k \in 1..Len(Secondary) :
        /\ Comparable(j, i) /\ Comparable(j, k)
        /\ Secondary[i].Entry_Date.v = final_df[j].Timesheet_Period.v + 6 * 86400 + 86399
        /\ Secondary[k].Entry_Date.v = final_df[j].Timesheet_Period.v + 7 * 86400 + 1
        /\ i \in cg_filtered[j]
        /\ k \notin cg_filtered[j]

Active == mapping_file.active.rows
Inactive == mapping_file.inactive.rows
BothSegments == Active \o Inactive

Occurs(rows, id) == \E k \in 1..Len(rows) : rows[k].PS_ID = id

\* the first row of rows with staff ID id
FirstRow(rows, id) ==
    rows[CHOOSE k \in 1..Len(rows) :
            /\ rows[k].PS_ID = id
            /\ \A m \in 1..(k - 1) : rows[m].PS_ID # id]

\* C5: after concatenation and deduplication one mapping row stays per staff
\* ID, the first with the active segment before the inactive one; for a staff
\* ID in both segments both tables show the email and owner of the active row.
C5_FirstMappingRowWins ==
    /\ Processed =>
        \A id \in {BothSegments[k].PS_ID : k \in 1..Len(BothSegments)} :
            /\ Cardinality({k \in 1..Len(mapping_combined.rows) :
                                mapping_combined.rows[k].PS_ID = id}) = 1
            /\ \E k \in 1..Len(mapping_combined.rows) :
                mapping_combined.rows[k] = FirstRow(BothSegments, id)
    /\ \A t \in {<<"recon", j>> : j \in 1..(IF Processed THEN Len(final_df) ELSE 0)}
             \cup {<<"flagged", j>> : j \in 1..(IF Reported THEN Len(flagged_df) ELSE 0)} :
        LET row == IF t[1] = "recon" THEN final_df[t[2]] ELSE flagged_df[t[2]]
        IN  (Occurs(Active, row.HSBC_Staff_ID) /\ Occurs(Inactive, row.HSBC_Staff_ID))
            => /\ row.CG_Email = FirstRow(Active, row.HSBC_Staff_ID).CG_Email_Id
               /\ row.PL_Owner = FirstRow(Active, row.HSBC_Staff_ID).PL_Owner_new

\* a staff ID mapped to different emails in the two segments, with a row in
\* each table
C5_Witness ==
    /\ Reported
    /\ Occurs(Active, 100) /\ Occurs(Inactive, 100)
    /\ FirstRow(Active, 100).CG_Email_Id # FirstRow(Inactive, 100).CG_Email_Id
    /\ \E j \in 1..Len(final_df) : final_df[j].HSBC_Staff_ID = 100
    /\ \E j \in 1..Len(flagged_df) : flagged_df[j].HSBC_Staff_ID = 100

\* flag Yes, status Approved or Posted, hours > 0
Reconcilable(r) ==
    /\ r.PROJECT_PRODUCTIVE_FLAG = "Yes"
    /\ r.TSSTATUS \in {"Approved", "Posted"}
    /\ r.UNITS_CONSUMED.k = "num"
    /\ r.UNITS_CONSUMED.v > 0

\* no mapping row for the staff ID, or a mapping row without email
Unresolved(r) ==
    \/ ~Occurs(BothSegments, r.RESOURCEID)
    \/ FirstRow(BothSegments, r.RESOURCEID).CG_Email_Id = NaN

BadLabel(e) ==
    ~(/\ Len(e.Timesheet_Period) = 2
      /\ IsDate(e.Timesheet_Period[1])
      /\ IsDate(e.Timesheet_Period[2]))

MalformedRow ==
    \/ \E i \in 1..Len(Secondary) :
        \/ Secondary[i].Entry_Date.k = "bad"
        \/ BadLabel(Secondary[i])
        \/ Secondary[i].Hours.k = "str"
    \/ \E i \in 1..Len(Primary) :
        \/ Primary[i].TIMEPERIOD.k = "bad"
        \/ Primary[i].UNITS_CONSUMED.k = "str"

\* C6: with an in-scope record of unresolved identity the run does not fail,
\* whatever the secondary table holds (here: any table without a malformed
\* cell), and the record has a Reconciliation row with empty email, empty
\* owner (compared where no mapping row exists: a mapping row without email
\* keeps its owner), 0 secondary hours and the primary hours as discrepancy.
C6_UnresolvedIdentityYieldsZero ==
    \A i \in 1..Len(Primary) :
        (Reconcilable(Primary[i]) /\ Unresolved(Primary[i]) /\ ~MalformedRow) =>
            /\ pc # "raised"
            /\ Processed =>
                \E j \in 1..Len(final_df) :
                    /\ final_df[j].idx = i
                    /\ final_df[j].CG_Email = NaN
                    /\ ~Occurs(BothSegments, Primary[i].RESOURCEID)
                        => final_df[j].PL_Owner = NaN
                    /\ final_df[j].CG_Hrs = 0
                    /\ final_df[j].Discrepancy = Primary[i].UNITS_CONSUMED.v

\* C7: a malformed row never aborts the run (here on a secondary table that
\* has rows and at least one email), and an entry with an unparseable period
\* label still matches through rule (b).
C7_MalformedRowNeverAborts ==
    /\ ( /\ MalformedRow
         /\ Secondary # <<>>
         /\ \E i \in 1..Len(Secondary) : Secondary[i].User_Email # NaN )
       => pc # "raised"
    /\ Processed =>
        \A j \in 1..Len(final_df) : \A i \in 1..Len(Secondary) :
            ( /\ Comparable(j, i)
              /\ BadLabel(Secondary[i])
              /\ RuleB(Secondary[i], final_df[j].Timesheet_Period.v) )
            => i \in cg_filtered[j]

\* the index labels of the reconcilable records among the first n, in order
RECURSIVE ReconcilableLabels(_)
ReconcilableLabels(n) ==
    IF n = 0 THEN <<>>
    ELSE ReconcilableLabels(n - 1)
         \o (IF Reconcilable(Primary[n]) THEN <<n>> ELSE <<>>)

\* C9: the Reconciliation table has one row per in-scope primary record, with
\* multiplicity and in input order; the merge yields as many rows as its left
\* side, and no row of an in-scope record is dropped, identical records
\* included.
C9_OneRowPerInScopeRecord ==
    Processed =>
        LET labels == ReconcilableLabels(Len(Primary))
        IN  /\ Len(merged_data) = Len(labels)
            /\ Len(final_df) = Len(labels)
            /\ \A j \in 1..Len(final_df) :
                /\ final_df[j].idx = labels[j]
                /\ final_df[j].Name = Primary[labels[j]].RESOURCE_NAME
                /\ final_df[j].HSBC_Staff_ID = Primary[labels[j]].RESOURCEID
                /\ final_df[j].Timesheet_Period = Primary[labels[j]].TIMEPERIOD
                /\ final_df[j].HSBC_Hrs = Primary[labels[j]].UNITS_CONSUMED.v

\* two identical in-scope records, each with its row
C9_Witness ==
    /\ Processed
    /\ Len(Primary) >= 2
    /\ Primary[1] = Primary[2]
    /\ Reconcilable(Primary[1])
    /\ Len(final_df) >= 2
    /\ final_df[1].idx = 1
    /\ final_df[2].idx = 2

\* C10: process_timesheet (and process_flagged_timesheets, which gets fresh
\* tables) leaves the tables handed to it unchanged.
C10_InputsUnchanged ==
    [][pc = "process" =>
        /\ hsbc_df' = hsbc_df
        /\ mapping_df' = mapping_df
        /\ cg_df' = cg_df]_vars

\* a required column is missing from a table of an upload, or a file cannot
\* be read
StructuralFailure ==
    \/ ~hsbc_file.readable
    \/ ~mapping_file.readable
    \/ ~cg_file.readable
    \/ ~(HsbcCols \subseteq hsbc_file.df.cols)
    \/ ~(MappingCols \subseteq mapping_file.active.cols)
    \/ ~(MappingCols \subseteq mapping_file.inactive.cols)
    \/ ~(CgCols \subseteq cg_file.df.cols)

\* C8: on a structural failure the run fails with an error and returns no
\* workbook, and the page offers no report of that run and no partial one.
C8_StructuralFailureIsFatal ==
    /\ (StructuralFailure /\ pc \in {"returned", "raised"})
        => (pc = "raised" /\ raised # "none" /\ excel_data = NoReport)
    /\ DownloadOffered =>
        (report_data.present /\ DOMAIN report_data = {"present", "recon", "flagged"})

\* the page's part of C8 alone: a run that raised leaves the stored report as
\* it was
HandlerKeepsReportOnError ==
    [][pc = "raised" => report_data' = report_data]_vars

====
